---- MODULE Spec2Model ----
(***************************************************************************)
(* Trajectory simulation and steady-state analysis of the                  *)
(* Pugh-Schaffer-Seabright population model (package/simulators.py,        *)
(* package/model.py), the steady-state solvers (package/solvers.py) and    *)
(* the sweep over initial guesses (examples/sandbox.py).  Four programs    *)
(* are specified: Spec drives a Simulator, ModelSpec a Model, SweepSpec    *)
(* the sweep and SolverSpec a RootFinder.                                  *)
(*                                                                         *)
(* Numbers are exact fixed-point reals in units of one tenth: the integer  *)
(* 3 stands for 0.3 and One (= 10) for 1.0.  Payoffs and the constant c    *)
(* are whole numbers, so c * PiAA * mGA is again a number of tenths.       *)
(* A state is a tuple of NComp = 8 numbers: components 1..4 are the male   *)
(* genotypes GA, Ga, gA, ga and components 5..8 the female ones.           *)
(***************************************************************************)
EXTENDS Integers, Sequences, FiniteSets

\* ------------------------------------------------------------------ bounds

\* largest number of time steps T passed to simulate
MaxT == 3

\* longest trajectory the variable-length loop is followed to
MaxTraj == 5

\* iterations the optimiser is given
MaxIter == 3

\* runs of the optimiser that are counted
MaxSolves == 2

\* initial guesses of a sweep
N == 3

\* ------------------------------------------------------- program constants

\* the real number 1.0 in tenths (mga = 1 - mGA; delta = np.ones(8))
One == 10

\* number of components of a state (np.ones(8), np.empty((8, T)))
NComp == 8

\* Python's None for the arguments rtol and T of simulate
None == -1

\* the 8 components, the male half and the female half (X[:4], X[4:])
Comps == 1..NComp
Males == 1..4
Females == 5..8

\* ------------------------------------------------------------------ inputs

\* parameter sets bound to the family: the simulator itself reads c, PiAA
\* and Piaa, the motion map reads the payoffs and e_G (e_G in tenths)
FamilyParamSets ==
    { [c |-> 1, PiAA |-> 5, Piaa |-> 3, PiaA |-> 6, PiAa |-> 5, e_G |-> 0],
      [c |-> 1, PiAA |-> 1, Piaa |-> 1, PiaA |-> 1, PiAa |-> 0, e_G |-> 5],
      [c |-> 2, PiAA |-> 3, Piaa |-> 5, PiaA |-> 6, PiAa |-> 5, e_G |-> 0] }

\* initial shares mGA of males carrying GA
MGAs == {0, 3, 5, One}

\* tolerances rtol > 0 (0.1, 0.4 and 1.0)
RTols == {1, 4, One}

\* numbers of time steps
Ts == 0..MaxT

\* parameter sets of the Model class (it has no c)
ModelParamSets ==
    { [PiAA |-> 5, Piaa |-> 4, PiaA |-> 6, PiAa |-> 5, e_G |-> 0],
      [PiAA |-> 5, Piaa |-> 3, PiaA |-> 6, PiAa |-> 5, e_G |-> 5],
      [PiAA |-> 6, Piaa |-> 3, PiaA |-> 6, PiAa |-> 5, e_G |-> 0],
      [PiAA |-> 3, Piaa |-> 5, PiaA |-> 6, PiAa |-> 5, e_G |-> 0],
      [PiAA |-> 4, Piaa |-> 5, PiaA |-> 6, PiAa |-> 5, e_G |-> 0] }

\* initial guesses: the same shares for males and females
\* (np.hstack((initial_males, initial_females)))
Guesses ==
    { g \o g : g \in { << 5, 0, 0, 5 >>, << 3, 0, 0, 7 >>,
                       << One, 0, 0, 0 >>, << 0, 0, 0, One >>,
                       << 2, 3, 3, 2 >> } }

VARIABLES
    family_params,      \* Simulator.family.params
    initial_condition,  \* Simulator._initial_condition (<<>>: not yet set)
    assigned,           \* the mGA last assigned and the parameters then bound
    pc,                 \* where simulate is: idle, fixed, variable
    argT,               \* T of the last call of simulate
    argRtol,            \* rtol of the last call of simulate
    t,                  \* loop variable of _simulate_fixed_trajectory
    traj,               \* local traj of the running call
    delta,              \* local delta of _simulate_variable_trajectory
    ncalls,             \* applications of F made by the last call
    outcome,            \* how the most recent operation on the simulator ended
    result,             \* the trajectory it returned (<<>>: none)
    params,             \* Model.params
    initial_guess,      \* Model._initial_guess (<<>>: not yet set)
    steady_state,       \* cache slot of Model.steady_state (<<>>: empty)
    nsolves,            \* runs of the optimiser so far, counted to MaxSolves
    got,                \* which Model property was read last
    got_steady_state,   \* the result that read returned (<<>>: none)
    got_eigenvalues,    \* the eigenvalues that read returned (<<>>: none)
    got_isstable,       \* the verdict that read returned (<<>>: none)
    evaluated,          \* last call of _objective or _jacobian and its value
    initial_guesses,    \* sandbox: the array of initial guesses
    sweep_i,            \* sandbox: rows of the sweep already processed
    steady_states,      \* sandbox: the storage container (<<>>: row unset)
    solver_params,      \* Solver.family.params
    solver_guess,       \* Solver._initial_guess (<<>>: not yet set)
    numeric_jacobian,   \* Solver.__numeric_jacobian (memo slot)
    numeric_residual,   \* Solver.__numeric_residual (memo slot)
    solver_call,        \* the most recent call on the solver
    solver_outcome,     \* how that call ended
    solver_result       \* what it returned (<<>>: nothing)

simVars == << family_params, initial_condition, assigned, pc, argT, argRtol, t,
              traj, delta, ncalls, outcome, result >>

modelVars == << params, initial_guess, steady_state, nsolves, got,
                got_steady_state, got_eigenvalues, got_isstable >>

sweepVars == << evaluated, initial_guesses, sweep_i, steady_states >>

solverVars == << solver_params, solver_guess, numeric_jacobian,
                 numeric_residual, solver_call, solver_outcome,
                 solver_result >>

vars == << simVars, modelVars, sweepVars, solverVars >>

\* ------------------------------------------------------------- motion map

Sum(X, S) ==
    LET RECURSIVE Acc(_)
        Acc(U) == IF U = {} THEN 0
                  ELSE LET i == CHOOSE j \in U : TRUE
                       IN X[i] + Acc(U \ {i})
    IN Acc(S)

Abs(x) == IF x < 0 THEN -x ELSE x

\* the product g * d of two numbers of tenths, rounded toward zero
Times(g, d) ==
    IF g * d >= 0 THEN (g * d) \div One ELSE -((-(g * d)) \div One)

\* the interior state the motion map is centred on
Centre == << 5, 0, 0, 5 >>

\* displacement of the share of GA males beyond which the males respond
\* only half as strongly
Reach == 3

\* how strongly a displacement from the centre is carried over to the
\* next period: among males (depending on where the state is), among
\* females, and from males to females
MaleGain(X, p) ==
    IF Abs(X[1] - Centre[1]) > Reach
    THEN (5 * (p.PiAA - p.Piaa)) \div 2
    ELSE 5 * (p.PiAA - p.Piaa)
FemaleGain(p) == 5 * (p.PiaA - p.PiAa)
Coupling(p) == p.e_G

\* family._numeric_system(X[:4], X[4:], **params), flattened: a piecewise
\* affine map about the centre; it maps states whose halves sum to 1 to
\* such states
NumericSystem(X, p) ==
    [i \in Comps |->
        IF i \in Males
        THEN Centre[i] + Times(MaleGain(X, p), X[i] - Centre[i])
        ELSE Centre[i - 4] + Times(FemaleGain(p), X[i] - Centre[i - 4])
                           + Times(Coupling(p), X[i - 4] - Centre[i - 4])]

\* Simulator.F
F(X) == NumericSystem(X, family_params)

\* -------------------------------------------------------------- simulator

\* the setter with fga0 computed from mGA instead of mga
IsolatedSubpopulationsWrongShare(mGA, p) ==
    LET mga == One - mGA
        fGA0 == p.c * p.PiAA * mGA
        fga0 == p.c * p.Piaa * mGA
    IN << mGA, 0, 0, mga >> \o << fGA0, 0, 0, fga0 >>

\* the setter with the payoffs PiAA and Piaa exchanged
IsolatedSubpopulationsSwappedPayoffs(mGA, p) ==
    LET mga == One - mGA
        fGA0 == p.c * p.Piaa * mGA
        fga0 == p.c * p.PiAA * mga
    IN << mGA, 0, 0, mga >> \o << fGA0, 0, 0, fga0 >>

\* np.hstack((initial_male_shares, initial_number_females))
IsolatedSubpopulations(mGA, p) ==
    LET mga == One - mGA
        fGA0 == p.c * p.PiAA * mGA
        fga0 == p.c * p.Piaa * mga
    IN << mGA, 0, 0, mga >> \o << fGA0, 0, 0, fga0 >>

\* np.ones(8)
Ones == [i \in Comps |-> One]

\* np.abs(new_shares - current_shares)
AbsDiff(X, Y) == [i \in Comps |-> Abs(X[i] - Y[i])]

\* the loop condition with np.all in place of np.any
AllGreater(d, rtol) == \A i \in Comps : d[i] > rtol

\* np.any(np.greater(delta, rtol))
AnyGreater(d, rtol) == \E i \in Comps : d[i] > rtol

\* np.empty((8, T)) with column 0 assigned
EmptyWithFirst(X0, T) == [k \in 1..T |-> IF k = 1 THEN X0 ELSE << >>]

\* a Simulator on a family; the Model object is left as constructed
SimulatorConstructed ==
    /\ family_params \in FamilyParamSets
    /\ initial_condition = << >>
    /\ assigned = << >>
    /\ pc = "idle"
    /\ argT = None
    /\ argRtol = None
    /\ t = 0
    /\ traj = << >>
    /\ delta = << >>
    /\ ncalls = 0
    /\ outcome = "none"
    /\ result = << >>

\* Model(params=params, solver_kwargs=...)
ModelConstructed ==
    /\ params \in ModelParamSets
    /\ initial_guess = << >>
    /\ steady_state = << >>
    /\ nsolves = 0
    /\ got = "none"
    /\ got_steady_state = << >>
    /\ got_eigenvalues = << >>
    /\ got_isstable = << >>

\* no Simulator in the program
SimulatorAbsent ==
    /\ family_params = << >>
    /\ initial_condition = << >>
    /\ assigned = << >>
    /\ pc = "absent"
    /\ argT = None
    /\ argRtol = None
    /\ t = 0
    /\ traj = << >>
    /\ delta = << >>
    /\ ncalls = 0
    /\ outcome = "none"
    /\ result = << >>

\* no Model in the program
ModelAbsent ==
    /\ params = << >>
    /\ initial_guess = << >>
    /\ steady_state = << >>
    /\ nsolves = 0
    /\ got = "absent"
    /\ got_steady_state = << >>
    /\ got_eigenvalues = << >>
    /\ got_isstable = << >>

\* an attribute of the solver that was never assigned
Unset == [state |-> "unset", keys |-> {}]

\* no sweep in the program, and nothing evaluated yet
SweepAbsent ==
    /\ evaluated = << >>
    /\ initial_guesses = << >>
    /\ sweep_i = 0
    /\ steady_states = << >>

\* no Solver in the program
SolverAbsent ==
    /\ solver_params = << >>
    /\ solver_guess = << >>
    /\ numeric_jacobian = Unset
    /\ numeric_residual = Unset
    /\ solver_call = << "absent" >>
    /\ solver_outcome = "none"
    /\ solver_result = << >>

\* a program that drives a Simulator
Init ==
    /\ SimulatorConstructed
    /\ ModelAbsent
    /\ SweepAbsent
    /\ SolverAbsent

\* a program that drives a Model
ModelInit ==
    /\ SimulatorAbsent
    /\ ModelConstructed
    /\ SweepAbsent
    /\ SolverAbsent

\* simulator.family.params = tmp_params
SetFamilyParams(p) ==
    /\ pc = "idle"
    /\ family_params' = p
    /\ outcome' = "assigned"
    /\ result' = << >>
    /\ UNCHANGED << initial_condition, assigned, pc, argT, argRtol, t, traj,
                    delta, ncalls >>
    /\ UNCHANGED << modelVars, sweepVars, solverVars >>

\* simulator.initial_condition = mGA
SetInitialCondition(mGA) ==
    /\ pc = "idle"
    /\ initial_condition' = IsolatedSubpopulations(mGA, family_params)
    /\ assigned' = << mGA, family_params >>
    /\ outcome' = "assigned"
    /\ result' = << >>
    /\ UNCHANGED << family_params, pc, argT, argRtol, t, traj, delta,
                    ncalls >>
    /\ UNCHANGED << modelVars, sweepVars, solverVars >>

\* a call of simulate that raises: nothing is returned
Raise(rtol, T, error) ==
    /\ outcome' = error
    /\ result' = << >>
    /\ argT' = T
    /\ argRtol' = rtol
    /\ ncalls' = 0
    /\ UNCHANGED << pc, t, traj, delta >>

\* self._simulate_fixed_trajectory(self.initial_condition, T), to its loop
EnterFixed(rtol, T) ==
    IF initial_condition = << >>
    THEN Raise(rtol, T, "AttributeError")
    ELSE IF T = 0
    THEN Raise(rtol, T, "IndexError")
    ELSE /\ pc' = "fixed"
         /\ traj' = EmptyWithFirst(initial_condition, T)
         /\ t' = 1
         /\ argT' = T
         /\ argRtol' = rtol
         /\ ncalls' = 0
         /\ outcome' = "running"
         /\ result' = << >>
         /\ UNCHANGED delta

\* self._simulate_variable_trajectory(self.initial_condition, rtol), to
\* its loop
EnterVariable(rtol, T) ==
    IF initial_condition = << >>
    THEN Raise(rtol, T, "AttributeError")
    ELSE /\ pc' = "variable"
         /\ traj' = << initial_condition >>
         /\ delta' = Ones
         /\ argT' = T
         /\ argRtol' = rtol
         /\ ncalls' = 0
         /\ outcome' = "running"
         /\ result' = << >>
         /\ UNCHANGED t

\* simulate with a default of two time steps when neither is given
SimulateWithDefault(rtol, T) ==
    /\ pc = "idle"
    /\ IF T # None
       THEN EnterFixed(rtol, T)
       ELSE IF rtol # None
       THEN EnterVariable(rtol, T)
       ELSE EnterFixed(rtol, 2)
    /\ UNCHANGED << family_params, initial_condition, assigned >>
    /\ UNCHANGED << modelVars, sweepVars, solverVars >>

\* simulate with rtol tested before T
SimulateRtolFirst(rtol, T) ==
    /\ pc = "idle"
    /\ IF rtol # None
       THEN EnterVariable(rtol, T)
       ELSE IF T # None
       THEN EnterFixed(rtol, T)
       ELSE Raise(rtol, T, "ValueError")
    /\ UNCHANGED << family_params, initial_condition, assigned >>
    /\ UNCHANGED << modelVars, sweepVars, solverVars >>

\* simulate(rtol, T): the choice between the two modes
Simulate(rtol, T) ==
    /\ pc = "idle"
    /\ IF T # None
       THEN EnterFixed(rtol, T)
       ELSE IF rtol # None
       THEN EnterVariable(rtol, T)
       ELSE Raise(rtol, T, "ValueError")
    /\ UNCHANGED << family_params, initial_condition, assigned >>
    /\ UNCHANGED << modelVars, sweepVars, solverVars >>

\* the pass with F applied to the first column instead of column t-1
FixedStepFromFirst ==
    /\ pc = "fixed"
    /\ t < argT
    /\ LET current_shares == traj[1]
           new_shares == F(current_shares)
       IN traj' = [traj EXCEPT ![t + 1] = new_shares]
    /\ t' = t + 1
    /\ ncalls' = ncalls + 1
    /\ UNCHANGED << family_params, initial_condition, assigned, pc, argT,
                    argRtol, delta, outcome, result >>
    /\ UNCHANGED << modelVars, sweepVars, solverVars >>

\* one pass of the loop of _simulate_fixed_trajectory
FixedStep ==
    /\ pc = "fixed"
    /\ t < argT
    /\ LET current_shares == traj[t]
           new_shares == F(current_shares)
       IN traj' = [traj EXCEPT ![t + 1] = new_shares]
    /\ t' = t + 1
    /\ ncalls' = ncalls + 1
    /\ UNCHANGED << family_params, initial_condition, assigned, pc, argT,
                    argRtol, delta, outcome, result >>
    /\ UNCHANGED << modelVars, sweepVars, solverVars >>

\* return traj
Return ==
    /\ result' = traj
    /\ outcome' = "returned"
    /\ pc' = "idle"
    /\ traj' = << >>
    /\ delta' = << >>
    /\ t' = 0
    /\ UNCHANGED << family_params, initial_condition, assigned, argT,
                    argRtol, ncalls >>
    /\ UNCHANGED << modelVars, sweepVars, solverVars >>

\* the loop of _simulate_fixed_trajectory is over
FixedReturn ==
    /\ pc = "fixed"
    /\ ~(t < argT)
    /\ Return

\* one pass of the loop of _simulate_variable_trajectory
VariableStep ==
    /\ pc = "variable"
    /\ AnyGreater(delta, argRtol)
    /\ Len(traj) < MaxTraj
    /\ LET current_shares == traj[Len(traj)]
           new_shares == F(current_shares)
       IN /\ delta' = AbsDiff(new_shares, current_shares)
          /\ traj' = Append(traj, new_shares)
    /\ ncalls' = ncalls + 1
    /\ UNCHANGED << family_params, initial_condition, assigned, pc, argT,
                    argRtol, t, outcome, result >>
    /\ UNCHANGED << modelVars, sweepVars, solverVars >>

\* the loop of _simulate_variable_trajectory is over
VariableReturn ==
    /\ pc = "variable"
    /\ ~AnyGreater(delta, argRtol)
    /\ Return

Next ==
    \/ \E p \in FamilyParamSets : SetFamilyParams(p)
    \/ \E mGA \in MGAs : SetInitialCondition(mGA)
    \/ \E rtol \in RTols \cup {None}, T \in Ts \cup {None} : Simulate(rtol, T)
    \/ FixedStep
    \/ FixedReturn
    \/ VariableStep
    \/ VariableReturn

Spec == Init /\ [][Next]_vars

\* ------------------------------------------------- claims on the Simulator

\* both halves of a state sum to 1
Simplex(X) == Sum(X, Males) = One /\ Sum(X, Females) = One

\* F applied n times to X
IterateF(X, n) ==
    LET RECURSIVE It(_, _)
        It(Y, k) == IF k = 0 THEN Y ELSE It(F(Y), k - 1)
    IN It(X, n)

\* a call of simulate has just returned a trajectory
Returned == outcome = "returned"

\* C1: a fixed-length simulation with T >= 1 returns exactly T states, the
\* first is the initial condition, every later one is F of its predecessor,
\* and F has been applied exactly T - 1 times.
C1_FixedLength ==
    (Returned /\ argT # None) =>
        /\ argT >= 1
        /\ Len(result) = argT
        /\ result[1] = initial_condition
        /\ \A k \in 2..Len(result) : result[k] = F(result[k - 1])
        /\ ncalls = argT - 1

\* a fixed-length run of three or more states that keeps moving
C1_Witness ==
    /\ Returned
    /\ argT # None
    /\ argRtol = None
    /\ Len(result) >= 3
    /\ result[2] # result[1]
    /\ result[3] # result[2]

C3_VariableTerminates ==
    (pc = "variable" /\ AnyGreater(delta, argRtol)) =>
        \A i, j \in 1..Len(traj) : i < j => traj[i] # traj[j]

\* C4: simulate with neither T nor rtol raises ValueError: nothing is
\* returned, F is not applied, no simulation is started and the initial
\* condition and the parameters stay as they were.
C4_NeitherGivenRaises ==
    [][Simulate(None, None) =>
          /\ outcome' = "ValueError"
          /\ result' = << >>
          /\ ncalls' = 0
          /\ pc' = "idle"
          /\ initial_condition' = initial_condition
          /\ family_params' = family_params]_vars

\* simulate() has raised on a simulator whose initial condition is set
C4_Witness ==
    /\ outcome = "ValueError"
    /\ argT = None
    /\ argRtol = None
    /\ initial_condition # << >>

\* C5: with both T and rtol given, T decides: the variable-length loop is
\* never entered, and the result is the trajectory of T states obtained by
\* applying F T - 1 times to the initial condition, whatever rtol is.
C5_TTakesPriority ==
    (argT # None /\ argRtol # None) =>
        /\ pc # "variable"
        /\ Returned =>
             /\ Len(result) = argT
             /\ \A k \in 1..argT :
                   result[k] = IterateF(initial_condition, k - 1)
             /\ ncalls = argT - 1

\* both given, with an rtol that would have ended a variable-length run at
\* once, and the trajectory has three moving states all the same
C5_Witness ==
    /\ Returned
    /\ argT # None
    /\ argRtol = One
    /\ Len(result) >= 3
    /\ result[3] # result[2]

\* C6 as stated: every state of every returned trajectory, state 0
\* included, has both halves summing to 1.
C6_SimplexEveryState ==
    Returned => \A k \in 1..Len(result) : Simplex(result[k])

\* C6 as amended: state 0 has its male half summing to 1 and its female
\* half summing to c*PiAA*m0 + c*Piaa*(1 - m0), for the m0 last assigned
\* and the parameters bound at that assignment; every later state has both
\* halves summing to 1 whenever its predecessor has.
C6_SimplexAfterSimplex ==
    Returned =>
        /\ Sum(result[1], Males) = One
        /\ Sum(result[1], Females) =
              assigned[2].c * assigned[2].PiAA * assigned[1]
            + assigned[2].c * assigned[2].Piaa * (One - assigned[1])
        /\ \A k \in 2..Len(result) :
              Simplex(result[k - 1]) => Simplex(result[k])

\* a moving trajectory of three states or more that starts in the simplex
C6_Witness ==
    /\ Returned
    /\ Len(result) >= 3
    /\ Simplex(result[1])
    /\ result[2] # result[1]
    /\ 0 < result[1][1]
    /\ result[1][1] < One

\* C7: assigning mGA as the initial condition stores exactly
\* [mGA, 0, 0, 1-mGA, c*PiAA*mGA, 0, 0, c*Piaa*(1-mGA)]; with mGA = 0.3,
\* c = 1, PiAA = 5, Piaa = 3 that is [0.3, 0, 0, 0.7, 1.5, 0, 0, 2.1].
C7_IsolatedInitialCondition ==
    [][\A mGA \in MGAs : SetInitialCondition(mGA) =>
          /\ initial_condition' =
                << mGA, 0, 0, One - mGA,
                   family_params.c * family_params.PiAA * mGA, 0, 0,
                   family_params.c * family_params.Piaa * (One - mGA) >>
          /\ ( /\ mGA = 3
               /\ family_params.c = 1
               /\ family_params.PiAA = 5
               /\ family_params.Piaa = 3 ) =>
                initial_condition' = << 3, 0, 0, 7, 15, 0, 0, 21 >>]_vars

\* the initial condition of the example has been assigned
C7_Witness ==
    /\ outcome = "assigned"
    /\ family_params.c = 1
    /\ family_params.PiAA = 5
    /\ family_params.Piaa = 3
    /\ initial_condition = << 3, 0, 0, 7, 15, 0, 0, 21 >>

\* C15: the initial condition simulate runs from is consistent with the
\* current parameters: whatever parameter replacements and assignments of
\* the initial condition came before, in any order, during a call of
\* simulate the stored initial condition is the isolated-subpopulation
\* vector of the last assigned m0 and of the c, PiAA and Piaa then in force.
C15_InitialConditionFollowsParams ==
    (pc \in {"fixed", "variable"} /\ initial_condition # << >>) =>
        initial_condition =
            IsolatedSubpopulations(assigned[1], family_params)

\* C16: a variable-length simulation applies F at least once and stops at
\* the first convergence: for every rtol > 0 the returned trajectory has two
\* states or more, and every consecutive pair but the last differs by more
\* than rtol in at least one component.
C16_StopsAtFirstConvergence ==
    (Returned /\ argT = None) =>
        /\ Len(result) >= 2
        /\ ncalls >= 1
        /\ \A k \in 2..(Len(result) - 1) :
              AnyGreater(AbsDiff(result[k], result[k - 1]), argRtol)

\* the second half of C16 alone, for the runs that did apply F
StopsAtFirstConvergence ==
    (Returned /\ argT = None) =>
        \A k \in 2..(Len(result) - 1) :
            AnyGreater(AbsDiff(result[k], result[k - 1]), argRtol)

\* ------------------------------------------------------------------ Model

\* wrapped_symbolics.model_system(*X, **params), flattened
ModelF(X) == NumericSystem(X, params)

\* wrapped_symbolics.model_jacobian(*X, **params): the matrix of partial
\* derivatives of the motion map, in tenths (lower triangular)
NumericJacobian(X, p) ==
    [i \in Comps |-> [j \in Comps |->
        IF i = j THEN (IF i \in Males THEN MaleGain(X, p) ELSE FemaleGain(p))
        ELSE IF i \in Females /\ j = i - 4 THEN Coupling(p)
        ELSE 0]]

\* wrapped_symbolics.residual(*X, **params): F(X) - X
NumericResidual(X, p) ==
    [i \in Comps |-> NumericSystem(X, p)[i] - X[i]]

\* wrapped_symbolics.residual_jacobian(*X, **params): dF/dX - I
NumericResidualJacobian(X, p) ==
    [i \in Comps |-> [j \in Comps |->
        NumericJacobian(X, p)[i][j] - (IF i = j THEN One ELSE 0)]]

\* Model._residual: np.array(resid) keeps the shape (8, 1) of the column
\* the symbolic system is made of
_residual(X) == [i \in Comps |-> << NumericResidual(X, params)[i] >>]

\* Model._residual_jacobian
_residual_jacobian(X) == NumericResidualJacobian(X, params)

\* F_jacobian returning the Jacobian of the residual
F_jacobianOfResidual(X) == NumericResidualJacobian(X, params)

\* Model.F_jacobian
F_jacobian(X) == NumericJacobian(X, params)

\* Model._objective: 0.5 * np.sum(resid**2), in units of 1/200
_objective(X) ==
    LET r == _residual(X)
    IN Sum([i \in Comps |-> r[i][1] * r[i][1]], Comps)

\* a * B for a of shape (8, 1) and B of shape (8, 8): numpy stretches the
\* column over the columns of B
Multiply(a, B) == [i \in Comps |-> [j \in Comps |-> a[i][1] * B[i][j]]]

\* np.sum(M, axis=0): the sums down the columns
SumAxis0(M) == [j \in Comps |-> Sum([i \in Comps |-> M[i][j]], Comps)]

\* np.sum(M, axis=1): the sums along the rows
SumAxis1(M) == [i \in Comps |-> Sum([j \in Comps |-> M[i][j]], Comps)]

\* the gradient summed along the wrong axis
_jacobianAlongRows(X) ==
    SumAxis1(Multiply(_residual(X), _residual_jacobian(X)))

\* Model._jacobian: np.sum(residual * residual_jacobian, axis=0), in
\* hundredths
_jacobian(X) ==
    SumAxis0(Multiply(_residual(X), _residual_jacobian(X)))

\* Model._bound_constraints: every share within [eps, 1 - eps]; eps = 1e-15
\* is below the resolution of a tenth
WithinBounds(X) == \A i \in Comps : 0 <= X[i] /\ X[i] <= One

\* Model._equality_constraints: 1 - np.sum(X[:4]) = 0, 1 - np.sum(X[4:]) = 0
MeetsEqualityConstraints(X) ==
    /\ One - Sum(X, Males) = 0
    /\ One - Sum(X, Females) = 0

\* optimize.minimize(self._objective, x0, method='SLSQP', ...): the search
\* moves along the motion map while the objective changes and the next
\* point is within the bounds and the equality constraints, for at most
\* MaxIter iterations; it reports success when the objective has settled
Minimize(x0) ==
    LET RECURSIVE Descend(_, _)
        Descend(x, k) ==
            IF _objective(ModelF(x)) = _objective(x)
            THEN [x |-> x, fun |-> _objective(x), success |-> TRUE]
            ELSE IF \/ k = 0
                    \/ ~WithinBounds(ModelF(x))
                    \/ ~MeetsEqualityConstraints(ModelF(x))
            THEN [x |-> x, fun |-> _objective(x), success |-> FALSE]
            ELSE Descend(ModelF(x), k - 1)
    IN Descend(x0, MaxIter)

\* linalg.eig of a triangular matrix: its diagonal
Eig(M) == [i \in Comps |-> M[i][i]]

\* np.all(np.less(np.abs(eigenvalues), 1.0))
AllLessThanOne(eigen_vals) == \A i \in Comps : Abs(eigen_vals[i]) < One

\* what a read of steady_state returns: the cached result if there is one
\* (cached_property), a fresh one otherwise
SteadyStateValue ==
    IF steady_state # << >> THEN steady_state[1] ELSE Minimize(initial_guess)

\* the optimiser runs when the cache is empty
SolvesAfterRead ==
    IF steady_state = << >> /\ nsolves < MaxSolves
    THEN nsolves + 1
    ELSE nsolves

\* Model._get_eigenvalues
GetEigenvaluesValue == Eig(F_jacobian(SteadyStateValue.x))

\* Model._get_isstable
GetIsStableValue == AllLessThanOne(GetEigenvaluesValue)

\* what a traits change notification does to the cache of steady_state
\* (depends_on '_initial_guess, params'); an assignment of an equal value
\* may or may not notify
Invalidated(changed) ==
    IF changed THEN { << >> } ELSE { << >>, steady_state }

\* steady_state depending on _initial_guess alone
ModelSetParamsKeepsCache(p) ==
    /\ got # "absent"
    /\ params' = p
    /\ got' = "none"
    /\ got_steady_state' = << >>
    /\ got_eigenvalues' = << >>
    /\ got_isstable' = << >>
    /\ UNCHANGED << initial_guess, steady_state, nsolves >>
    /\ UNCHANGED << simVars, sweepVars, solverVars >>

\* example.params = p: the parameter set is replaced wholesale
ModelSetParams(p) ==
    /\ got # "absent"
    /\ params' = p
    /\ steady_state' \in Invalidated(p # params)
    /\ got' = "none"
    /\ got_steady_state' = << >>
    /\ got_eigenvalues' = << >>
    /\ got_isstable' = << >>
    /\ UNCHANGED << initial_guess, nsolves >>
    /\ UNCHANGED << simVars, sweepVars, solverVars >>

\* example.initial_guess = value (Model._set_initial_guess)
SetInitialGuess(value) ==
    /\ got # "absent"
    /\ initial_guess' = value
    /\ steady_state' \in Invalidated(value # initial_guess)
    /\ got' = "none"
    /\ got_steady_state' = << >>
    /\ got_eigenvalues' = << >>
    /\ got_isstable' = << >>
    /\ UNCHANGED << params, nsolves >>
    /\ UNCHANGED << simVars, sweepVars, solverVars >>

\* example.steady_state
GetSteadyState ==
    /\ got # "absent"
    /\ initial_guess # << >>
    /\ steady_state' = << SteadyStateValue >>
    /\ nsolves' = SolvesAfterRead
    /\ got' = "steady_state"
    /\ got_steady_state' = << SteadyStateValue >>
    /\ got_eigenvalues' = << >>
    /\ got_isstable' = << >>
    /\ UNCHANGED << params, initial_guess >>
    /\ UNCHANGED << simVars, sweepVars, solverVars >>

\* example.eigenvalues
GetEigenvalues ==
    /\ got # "absent"
    /\ initial_guess # << >>
    /\ steady_state' = << SteadyStateValue >>
    /\ nsolves' = SolvesAfterRead
    /\ got' = "eigenvalues"
    /\ got_steady_state' = << >>
    /\ got_eigenvalues' = GetEigenvaluesValue
    /\ got_isstable' = << >>
    /\ UNCHANGED << params, initial_guess >>
    /\ UNCHANGED << simVars, sweepVars, solverVars >>

\* example.isstable
GetIsStable ==
    /\ got # "absent"
    /\ initial_guess # << >>
    /\ steady_state' = << SteadyStateValue >>
    /\ nsolves' = SolvesAfterRead
    /\ got' = "isstable"
    /\ got_steady_state' = << >>
    /\ got_eigenvalues' = << >>
    /\ got_isstable' = << GetIsStableValue >>
    /\ UNCHANGED << params, initial_guess >>
    /\ UNCHANGED << simVars, sweepVars, solverVars >>

\* example._objective(X), as the optimiser calls it
EvalObjective(X) ==
    /\ got # "absent"
    /\ evaluated' = [f |-> "_objective", X |-> X, params |-> params,
                     value |-> _objective(X)]
    /\ UNCHANGED << initial_guesses, sweep_i, steady_states >>
    /\ UNCHANGED << simVars, modelVars, solverVars >>

\* example._jacobian(X), as the optimiser calls it
EvalJacobian(X) ==
    /\ got # "absent"
    /\ evaluated' = [f |-> "_jacobian", X |-> X, params |-> params,
                     value |-> _jacobian(X)]
    /\ UNCHANGED << initial_guesses, sweep_i, steady_states >>
    /\ UNCHANGED << simVars, modelVars, solverVars >>

ModelNext ==
    \/ \E p \in ModelParamSets : ModelSetParams(p)
    \/ \E value \in Guesses : SetInitialGuess(value)
    \/ GetSteadyState
    \/ GetEigenvalues
    \/ GetIsStable
    \/ \E X \in Guesses : EvalObjective(X)
    \/ \E X \in Guesses : EvalJacobian(X)

ModelSpec == ModelInit /\ [][ModelNext]_vars

\* ----------------------------------------------------- claims on the Model

\* C8: the cached steady state is never stale: whatever sequence of
\* parameter replacements, initial guesses and reads came before, the cache
\* slot, when filled, and the result a read of steady_state returns are the
\* optimiser's result for the current initial guess and parameters.
C8_SteadyStateFresh ==
    /\ steady_state # << >> => steady_state[1] = Minimize(initial_guess)
    /\ got_steady_state # << >> =>
          got_steady_state[1] = Minimize(initial_guess)

\* a read of steady_state that followed at least two runs of the optimiser
C8_Witness ==
    /\ got = "steady_state"
    /\ nsolves >= 2
    /\ got_steady_state # << >>
    /\ got_steady_state[1].x # initial_guess

\* C9: isstable is true exactly when every eigenvalue of the Jacobian of the
\* motion map at the steady-state vector has magnitude strictly below 1; a
\* magnitude of exactly 1 makes it false.
C9_StableIffAllInsideUnitCircle ==
    got = "isstable" =>
        LET J == NumericJacobian(steady_state[1].x, params)
        IN /\ got_isstable[1] = (\A i \in Comps : Abs(J[i][i]) < One)
           /\ (\E i \in Comps : Abs(J[i][i]) = One) => ~got_isstable[1]

\* a verdict on a Jacobian whose largest eigenvalue has magnitude exactly 1
C9_Witness ==
    /\ got = "isstable"
    /\ ~got_isstable[1]
    /\ LET J == NumericJacobian(steady_state[1].x, params)
       IN /\ \A i \in Comps : Abs(J[i][i]) <= One
          /\ \E i \in Comps : Abs(J[i][i]) = One

\* C10: when the equilibrium search has not converged, reading the
\* eigenvalues or the stability verdict fails with a precondition error
\* and returns neither eigenvalues nor a verdict.
C10_NoVerdictWithoutConvergence ==
    (steady_state # << >> /\ ~steady_state[1].success) =>
        /\ got_eigenvalues = << >>
        /\ got_isstable = << >>

\* C13: the gradient of the objective is the chain rule of the least-squares
\* objective: with r the residual and J the Jacobian of the residual at X,
\* the objective is 0.5 * sum_i r_i^2 (here in units of 1/200, r being in
\* tenths) and component j of the gradient is sum_i r_i * J[i][j], the
\* product of r transposed and J.
C13_GradientIsChainRule ==
    evaluated # << >> =>
        LET r == NumericResidual(evaluated.X, evaluated.params)
            J == NumericResidualJacobian(evaluated.X, evaluated.params)
        IN /\ evaluated.f = "_objective" =>
                 evaluated.value = Sum([i \in Comps |-> r[i] * r[i]], Comps)
           /\ evaluated.f = "_jacobian" =>
                 \A j \in Comps :
                    evaluated.value[j] =
                        Sum([i \in Comps |-> r[i] * J[i][j]], Comps)

\* a gradient that is not zero and differs from r_j times the sum of
\* column j of J
C13_Witness ==
    /\ evaluated # << >>
    /\ evaluated.f = "_jacobian"
    /\ LET r == NumericResidual(evaluated.X, evaluated.params)
           J == NumericResidualJacobian(evaluated.X, evaluated.params)
       IN \E j \in Comps :
             /\ evaluated.value[j] # 0
             /\ evaluated.value[j] #
                   r[j] * Sum([i \in Comps |-> J[i][j]], Comps)

\* ------------------------------------------- batch sweep (examples/sandbox)

\* np.isclose(a, b): |a - b| <= atol + rtol * |b| with atol = 1e-8 and
\* rtol = 1e-5, both below the resolution of the objective
IsClose(a, b) == a = b

\* a row of np.empty((N, 8)) not yet assigned
EmptyRow == [kind |-> "empty", x |-> << >>]

\* steady_states[i] = np.nan
NaNRow == [kind |-> "nan", x |-> << >>]

\* steady_states[i] = tmp_result.x
SolvedRow(x) == [kind |-> "solved", x |-> x]

\* acceptance on the success flag alone
AcceptedOnSuccess(tmp_result) == tmp_result.success

\* tmp_result.success and np.isclose(tmp_result.fun, 0)
Accepted(tmp_result) ==
    tmp_result.success /\ IsClose(tmp_result.fun, 0)

\* the script up to its loop: the guesses are drawn, the model is created
\* and the storage container is allocated
SweepStarted ==
    /\ evaluated = << >>
    /\ initial_guesses \in [1..N -> Guesses]
    /\ sweep_i = 0
    /\ steady_states = [k \in 1..N |-> EmptyRow]

\* a program that sweeps a Model over the initial guesses
SweepInit ==
    /\ SimulatorAbsent
    /\ ModelConstructed
    /\ SweepStarted
    /\ SolverAbsent

\* one pass of the loop body: the guess is assigned, the steady state is
\* read and the row is recorded
SweepStep ==
    /\ initial_guesses # << >>
    /\ sweep_i < N
    /\ LET value == initial_guesses[sweep_i + 1]
       IN /\ initial_guess' = value
          /\ \E cache \in Invalidated(value # initial_guess) :
                LET tmp_result ==
                        IF cache # << >> THEN cache[1] ELSE Minimize(value)
                IN /\ steady_state' = << tmp_result >>
                   /\ nsolves' = IF cache = << >> /\ nsolves < MaxSolves
                                 THEN nsolves + 1
                                 ELSE nsolves
                   /\ got_steady_state' = << tmp_result >>
                   /\ steady_states' =
                         [steady_states EXCEPT ![sweep_i + 1] =
                             IF Accepted(tmp_result)
                             THEN SolvedRow(tmp_result.x)
                             ELSE NaNRow]
    /\ sweep_i' = sweep_i + 1
    /\ got' = "steady_state"
    /\ got_eigenvalues' = << >>
    /\ got_isstable' = << >>
    /\ UNCHANGED << params, evaluated, initial_guesses >>
    /\ UNCHANGED << simVars, solverVars >>

SweepNext == SweepStep

SweepSpec == SweepInit /\ [][SweepNext]_vars

\* ----------------------------------------------------------------- Solver

\* names scipy.optimize.root accepts for method
Methods == {"hybr", "lm"}

\* an attribute holding None
IsNone == [state |-> "None", keys |-> {}]

\* sym.lambdify(_symbolic_vars + list(params.keys()), ...): a function
\* taking exactly these parameter names
Lambdify(keys) == [state |-> "compiled", keys |-> keys]

\* Solver(family): __init__ assigns self.family and nothing else
SolverConstructed ==
    /\ solver_params \in FamilyParamSets
    /\ solver_guess = << >>
    /\ numeric_jacobian = Unset
    /\ numeric_residual = Unset
    /\ solver_call = << "none" >>
    /\ solver_outcome = "none"
    /\ solver_result = << >>

\* a program that drives a Solver
SolverInit ==
    /\ SimulatorAbsent
    /\ ModelAbsent
    /\ SweepAbsent
    /\ SolverConstructed

\* the getter of a memoized numeric function: reading a slot that was
\* never assigned raises, a slot holding None is filled, a filled slot is
\* returned as it is
MemoGetter(slot, keys) ==
    IF slot = Unset
    THEN [error |-> "AttributeError", slot |-> slot]
    ELSE IF slot = IsNone
    THEN [error |-> "none", slot |-> Lambdify(keys)]
    ELSE [error |-> "none", slot |-> slot]

\* Solver._numeric_jacobian
NumericJacobianGetter == MemoGetter(numeric_jacobian, DOMAIN solver_params)

\* calling a compiled function with **self.family.params
CallError(fn, p) ==
    IF fn.keys = DOMAIN p THEN "none" ELSE "TypeError"

\* solver.family.params = p: no memo slot is touched
SolverSetParams(p) ==
    /\ solver_call # << "absent" >>
    /\ solver_params' = p
    /\ solver_call' = << "params" >>
    /\ solver_outcome' = "assigned"
    /\ solver_result' = << >>
    /\ UNCHANGED << solver_guess, numeric_jacobian, numeric_residual >>
    /\ UNCHANGED << simVars, modelVars, sweepVars >>

\* solver.initial_guess = value
SolverSetInitialGuess(value) ==
    /\ solver_call # << "absent" >>
    /\ solver_guess' = value
    /\ solver_call' = << "initial_guess" >>
    /\ solver_outcome' = "assigned"
    /\ solver_result' = << >>
    /\ UNCHANGED << solver_params, numeric_jacobian, numeric_residual >>
    /\ UNCHANGED << simVars, modelVars, sweepVars >>

\* solver.jacobian(X)
SolverJacobian(X) ==
    /\ solver_call # << "absent" >>
    /\ solver_call' = << "jacobian", X >>
    /\ LET getter == NumericJacobianGetter
           error == IF getter.error # "none"
                    THEN getter.error
                    ELSE CallError(getter.slot, solver_params)
       IN /\ numeric_jacobian' = getter.slot
          /\ solver_outcome' = IF error = "none" THEN "returned" ELSE error
          /\ solver_result' =
                IF error = "none"
                THEN << NumericResidualJacobian(X, solver_params) >>
                ELSE << >>
    /\ UNCHANGED << solver_params, solver_guess, numeric_residual >>
    /\ UNCHANGED << simVars, modelVars, sweepVars >>

\* what solver.residual(X) does: self._numeric_system is an attribute no
\* class of the solvers defines
ResidualError == "AttributeError"

\* solver.residual(X)
SolverResidual(X) ==
    /\ solver_call # << "absent" >>
    /\ solver_call' = << "residual", X >>
    /\ solver_outcome' = ResidualError
    /\ solver_result' = << >>
    /\ UNCHANGED << solver_params, solver_guess, numeric_jacobian,
                    numeric_residual >>
    /\ UNCHANGED << simVars, modelVars, sweepVars >>

\* RootFinder.solve(method, with_jacobian): optimize.root evaluates
\* self.residual at x0 = self.initial_guess before anything else
RootFinderSolve(method, with_jacobian) ==
    /\ solver_call # << "absent" >>
    /\ solver_call' = << "solve", method, with_jacobian >>
    /\ solver_outcome' = IF solver_guess = << >>
                         THEN "AttributeError"
                         ELSE ResidualError
    /\ solver_result' = << >>
    /\ UNCHANGED << solver_params, solver_guess, numeric_jacobian,
                    numeric_residual >>
    /\ UNCHANGED << simVars, modelVars, sweepVars >>

SolverNext ==
    \/ \E p \in FamilyParamSets : SolverSetParams(p)
    \/ \E value \in Guesses : SolverSetInitialGuess(value)
    \/ \E X \in Guesses : SolverJacobian(X)
    \/ \E X \in Guesses : SolverResidual(X)
    \/ \E method \in Methods, with_jacobian \in BOOLEAN :
          RootFinderSolve(method, with_jacobian)

SolverSpec == SolverInit /\ [][SolverNext]_vars

\* ----------------------------------------------------- claims on the sweep

\* the optimiser's result for row k of the sweep
SweepResult(k) == Minimize(initial_guesses[k])

\* C12: a row of the sweep holds the solved state exactly when the result
\* of its search has the success flag set and a final objective within
\* tolerance of zero; in every other case (success with a nonzero
\* objective, or failure) the row is marked NaN.
C12_AcceptanceRule ==
    \A k \in 1..sweep_i :
        LET r == SweepResult(k)
        IN IF r.success /\ r.fun = 0
           THEN steady_states[k] = [kind |-> "solved", x |-> r.x]
           ELSE steady_states[k] = [kind |-> "nan", x |-> << >>]

\* a finished sweep with a solved row, a row whose search succeeded on a
\* nonzero objective and a row whose search failed
C12_Witness ==
    /\ sweep_i = N
    /\ \E k \in 1..N : steady_states[k].kind = "solved"
    /\ \E k \in 1..N :
          /\ SweepResult(k).success
          /\ SweepResult(k).fun # 0
          /\ steady_states[k].kind = "nan"
    /\ \E k \in 1..N :
          /\ ~SweepResult(k).success
          /\ steady_states[k].kind = "nan"

\* ---------------------------------------------------- claims on the Solver

\* C11: a search that does not converge is reported as data, never raised:
\* a read of the constrained-minimisation steady state and a call of
\* RootFinder.solve with an initial guess set each return a result carrying
\* the optimiser's success flag, and a sweep has processed every row up to
\* its position and can go on to the next one until all N are processed.
C11_NonConvergenceIsData ==
    /\ (solver_call[1] = "solve" /\ solver_guess # << >>) =>
          /\ solver_outcome = "returned"
          /\ solver_result # << >>
          /\ solver_result[1].success \in BOOLEAN
    /\ got = "steady_state" =>
          /\ got_steady_state # << >>
          /\ got_steady_state[1].success \in BOOLEAN
    /\ initial_guesses # << >> =>
          /\ \A k \in 1..sweep_i : steady_states[k].kind # "empty"
          /\ sweep_i < N => ENABLED SweepStep

\* C14: the memoized numeric functions follow the parameter set: after any
\* sequence of parameter replacements on the family and evaluations of the
\* solver's residual and Jacobian, each evaluation is carried out, and by a
\* numeric function compiled for the parameter names bound at that moment,
\* never by one compiled for a parameter set bound before.
C14_MemoFollowsParams ==
    /\ solver_call[1] \in {"jacobian", "residual"} =>
          solver_outcome = "returned"
    /\ solver_call[1] = "jacobian" =>
          numeric_jacobian = Lambdify(DOMAIN solver_params)
    /\ numeric_jacobian.state = "compiled" =>
          numeric_jacobian.keys = DOMAIN solver_params
    /\ numeric_residual.state = "compiled" =>
          numeric_residual.keys = DOMAIN solver_params

====
